---- MODULE Spec2Model ----
(***************************************************************************)
(* Model of flexx/ui/app/app.py: the AppManager (the registry of app       *)
(* classes with their pending and connected proxies), the Proxy life cycle *)
(* (PENDING -> CONNECTED -> CLOSED, derived from the websocket), the       *)
(* command buffer of a proxy, and the tornado server bootstrap.            *)
(*                                                                         *)
(* Python objects are modelled as heap cells: a Proxy is an index into the *)
(* sequence `proxy`, a websocket (or Exporter) an index into `chan`.  The  *)
(* value 0 stands for None.  An exception raised by a handler is recorded  *)
(* in ret.err; whatever the handler mutated before raising stays mutated.  *)
(***************************************************************************)
EXTENDS Naturals, Sequences, FiniteSets, TLC

(* ------------------------------ bounds -------------------------------- *)
\* The manager specification (Spec): Proxy objects and channel objects
\* created in one behaviour.
MaxProxies == 2
MaxChans == 2
\* The Proxy specification (SpecProxy) follows one Proxy object: commands
\* handed to it, channel objects offered to it, close() calls on its handle.
ProxyCmds == 2
ProxyChans == 2
\* SpecServer: proxies (and connections), and close() calls on one proxy
ServerProxies == 1
MaxCloses == 2
\* SpecHash: the longest seed string handed to port_hash
MaxSeedLen == 4
\* SpecIds: Proxy objects created, and connections made
IdProxies == 2
IdChans == 2

(* --------------------------- fixed universes --------------------------- *)
DEFAULT == "__default__"
\* Application names: the default entry and one application class name.
Names == {DEFAULT, "App"}
\* Two distinct class objects whose __name__ is "App" (a class redefined in
\* an interactive session), so that re-registration can replace the class.
AppClasses == {"cls1", "cls2"}
ClassName(cls) == "App"

\* runtime arguments of Proxy(...): None is "", the others are strings.
Runtimes == {"<export>", "notebook", "browser"}

\* Mirrored class universe with Python's mro() of each class.  "Mixin" is a
\* plain class (not a Mirrored subclass); C is declared as C(Mixin, B).
MClasses == {"Mirrored", "B", "C"}
AllClasses == MClasses \cup {"Mixin"}
mro(cls) ==
    CASE cls = "Mirrored" -> <<"Mirrored", "object">>
      [] cls = "B"        -> <<"B", "Mirrored", "object">>
      [] cls = "C"        -> <<"C", "Mixin", "B", "Mirrored", "object">>
      [] cls = "Mixin"    -> <<"Mixin", "object">>
      [] OTHER            -> <<"object">>
issubclass_Mirrored(cls) == cls \in MClasses

\* cls.get_css(): text as a sequence of characters; cls.get_js(): opaque.
get_css(cls) ==
    CASE cls = "Mirrored" -> <<" ", "\n">>
      [] cls = "C"        -> <<" ", "c", " ">>
      [] OTHER            -> <<>>
get_js(cls) == <<cls>>
Whitespace == {" ", "\n", "\t"}

RECURSIVE lstrip(_)
lstrip(s) == IF s # <<>> /\ Head(s) \in Whitespace THEN lstrip(Tail(s)) ELSE s
RECURSIVE rstrip(_)
rstrip(s) ==
    IF s # <<>> /\ s[Len(s)] \in Whitespace
    THEN rstrip(SubSeq(s, 1, Len(s) - 1)) ELSE s
\* str.strip()
strip(s) == rstrip(lstrip(s))

\* A command is the prefix followed by the payload: 'DEFINE-JS ' + js.
Command(prefix, payload) == <<prefix>> \o payload
Codes == {"a"}

\* '%x' % n
HexDigit(d) ==
    <<"0","1","2","3","4","5","6","7","8","9","a","b","c","d","e","f">>[d + 1]
RECURSIVE Hex(_)
Hex(n) == IF n < 16 THEN <<HexDigit(n)>>
          ELSE Hex(n \div 16) \o <<HexDigit(n % 16)>>

\* Addresses of Proxy objects (what id(self) returns) start above AddrBase.
AddrBase == 10

(* ------------------------------- state --------------------------------- *)
VARIABLES
    _proxies,       \* AppManager._proxies: name -> (cls, pending, connected)
    proxy,          \* heap of Proxy objects, in creation order
    chan,           \* heap of channel objects (websockets and exporters)
    _tornado_app,   \* the module global: the server object, or None
    is_notebook,    \* the module global is_notebook
    limit,          \* the bounds of the environment being explored
    issued,         \* history: per proxy, the commands _send_command accepted
    ret             \* the last call: operation, arguments, result, exception

vars == <<_proxies, proxy, chan, _tornado_app, is_notebook, limit, issued,
          ret>>

NoErr == ""
ErrDangling == "RuntimeError: Asked for app id, but could not find it"
ErrAlready == "RuntimeError: Cannot add proxy instances that are/were already connected"
ErrClosed == "RuntimeError: Cannot send commands; app is closed"
ErrNotConnected == "RuntimeError: App not connected"
ErrNoPort == "RuntimeError: Could not bind to free address"
ErrAssert == "AssertionError"
ErrKey == "KeyError"
ErrValue == "ValueError: Not a Mirrored class"
ErrAttr == "AttributeError: serving_at"
ErrBind == "OSError"

(* ------------------------------ Proxy ---------------------------------- *)
\* Proxy.id
id(px) == Hex(px.addr)

\* Proxy.status, computed from the websocket on every read.
status(px, C) ==
    IF px._ws = 0 THEN "PENDING"
    ELSE IF C[px._ws].close_code = 0 THEN "CONNECTED"
    ELSE "CLOSED"

\* ws.command(command): the channel object records what it is handed.
ws_command(C, w, command) ==
    [C EXCEPT ![w].log = Append(@, command)]


(* --------------------------- port derivation --------------------------- *)
\* Integers beyond 31 bits are kept as two limbs <<hi, lo>> of 24 bits each
\* (value = hi * 2^24 + lo), so that Python's unbounded ints are exact.
Limb == 16777216
Norm(hi, lo) == <<hi + (lo \div Limb), lo % Limb>>
\* val >> 3
Shr3(v) == <<v[1] \div 8, (v[1] % 8) * (Limb \div 8) + (v[2] \div 8)>>
\* fac = 0xd2d84a61 = 210 * 2^24 + 14174817
FacHi == 210
FacLo == 14174817
\* n * fac, for 0 <= n <= 130
TimesFac(n) == Norm(n * FacHi, n * FacLo)
Plus(a, b) == Norm(a[1] + b[1], a[2] + b[2])

\* ord(c) for the characters of the seeds
ord(c) ==
    CASE c = "f" -> 102 [] c = "l" -> 108 [] c = "e" -> 101 [] c = "x" -> 120
      [] c = "+" -> 43  [] c = "0" -> 48  [] c = "1" -> 49  [] c = "2" -> 50
      [] c = "3" -> 51  [] c = "4" -> 52  [] c = "5" -> 53  [] c = "6" -> 54
      [] c = "7" -> 55  [] c = "8" -> 56  [] c = "9" -> 57  [] c = "a" -> 97
      [] c = "b" -> 98  [] OTHER -> 63

\* the loop of port_hash: val += (val >> 3) + ord(c) * fac
RECURSIVE HashLoop(_, _)
HashLoop(val, name) ==
    IF name = <<>> THEN val
    ELSE HashLoop(Plus(Plus(val, Shr3(val)), TimesFac(ord(Head(name)))),
                  Tail(name))

PortBase == 49152
PortRange == 16384
\* Mutant of port_hash: the step after the loop, which adds len(name) * fac,
\* is missing.
port_hash_loop_only(name) ==
    PortBase + (HashLoop(<<0, 0>>, name)[2] % PortRange)

port_hash(name) ==
    CHOOSE r \in
        {PortBase + (Plus(Plus(v1, Shr3(v1)), TimesFac(Len(name)))[2] % PortRange)
         : v1 \in {HashLoop(<<0, 0>>, name)}} : TRUE

\* '%i' % n
DecDigit(d) == <<"0","1","2","3","4","5","6","7","8","9">>[d + 1]
RECURSIVE Dec(_)
Dec(n) == IF n < 10 THEN <<DecDigit(n)>>
          ELSE Dec(n \div 10) \o <<DecDigit(n % 10)>>
\* range(100) in init_server
NumCandidates == 100

(* ------------------------------ server --------------------------------- *)
\* _tornado_app: `created` is "_tornado_app is not None"; `listening` is the
\* port its listen() succeeded on (0: none); `serving_at` is the attribute
\* set at the end of init_server (0: the attribute does not exist); `tried`
\* is the sequence of ports listen() was called with.
NoServer ==
    [created |-> FALSE, listening |-> 0, serving_at |-> 0, tried |-> <<>>]

\* _tornado_app.listen(port, host): `busy` is the environment, the set of
\* ports in use, on which listen() raises OSError.
listen(T, port, busy) ==
    IF port \in busy THEN [T EXCEPT !.tried = Append(@, port)]
    ELSE [T EXCEPT !.tried = Append(@, port), !.listening = port]

\* 'flexx+%i' % i
Seed(i) == <<"f", "l", "e", "x", "x", "+">> \o Dec(i)

\* Mutant of ListenLoop: the break is missing, every candidate is tried.
RECURSIVE ListenLoopNoBreak(_, _, _, _)
ListenLoopNoBreak(T, lo, hi, busy) ==
    CHOOSE r \in
        {IF lo >= hi THEN t
         ELSE IF hi = lo + 1 THEN listen(t, port_hash(Seed(lo)), busy)
         ELSE LET mid == (lo + hi) \div 2 IN
              ListenLoopNoBreak(ListenLoopNoBreak(t, lo, mid, busy),
                                mid, hi, busy)
         : t \in {T}} : TRUE

\* the iterations lo..hi-1 of the loop "for i in range(100)" of init_server,
\* in order; once a listen() has not raised (break) the rest is skipped.
\* The range is halved so that the evaluation stays shallow, and the state
\* T is bound as t so that it is evaluated once.
RECURSIVE ListenLoop(_, _, _, _)
ListenLoop(T, lo, hi, busy) ==
    CHOOSE r \in
        {IF t.listening # 0 \/ lo >= hi THEN t
         ELSE IF hi = lo + 1 THEN listen(t, port_hash(Seed(lo)), busy)
         ELSE LET mid == (lo + hi) \div 2 IN
              ListenLoop(ListenLoop(t, lo, mid, busy), mid, hi, busy)
         : t \in {T}} : TRUE

\* init_server(host, port): `port` = 0 is port=None.
\* Returns <<_tornado_app', exception>>.  (T1 \in {e} binds T1 to the value
\* of the call e, which is then evaluated once.)
init_server(T, port, busy) ==
    IF T.created THEN <<T, NoErr>>
    ELSE LET T0 == [NoServer EXCEPT !.created = TRUE] IN
         IF port # 0
         THEN CHOOSE r \in
                 {IF T1.listening = 0 THEN <<T1, ErrBind>>
                  ELSE <<[T1 EXCEPT !.serving_at = port], NoErr>>
                  : T1 \in {listen(T0, port, busy)}} : TRUE
         ELSE CHOOSE r \in
                 {IF T1.listening = 0 THEN <<T1, ErrNoPort>>
                  ELSE <<[T1 EXCEPT !.serving_at = T1.listening], NoErr>>
                  : T1 \in {ListenLoop(T0, 0, NumCandidates, busy)}} : TRUE

(* ------------------------- the program state --------------------------- *)
\* The methods below are functions of a record G of the whole program state:
\* R = _proxies, P = proxy, C = chan, T = _tornado_app, I = issued, plus the
\* outcome of the call so far: res (the returned proxy, 0 for None) and err
\* (the exception that ended it, NoErr if none).
Raise(G, e) == [G EXCEPT !.err = e, !.res = 0]
Return(G, r) == [G EXCEPT !.res = r]

\* Exporter(self) / an incoming websocket: a new channel object.
NewChan(kind, code) == [kind |-> kind, close_code |-> code, log |-> <<>>]

\* Mutant of _send_command: only the presence of a websocket is looked at,
\* not its close_code.
_send_command_unchecked(G, p, command) ==
    IF G.P[p]._ws # 0
    THEN [G EXCEPT !.C = ws_command(G.C, G.P[p]._ws, command),
                   !.I[p] = Append(@, command)]
    ELSE [G EXCEPT !.P[p]._pending_commands = Append(@, command),
                   !.I[p] = Append(@, command)]

\* Proxy._send_command
_send_command(G, p, command) ==
    LET st == status(G.P[p], G.C) IN
    IF st = "CONNECTED"
    THEN [G EXCEPT !.C = ws_command(G.C, G.P[p]._ws, command),
                   !.I[p] = Append(@, command)]
    ELSE IF st = "PENDING"
    THEN [G EXCEPT !.P[p]._pending_commands = Append(@, command),
                   !.I[p] = Append(@, command)]
    ELSE Raise(G, ErrClosed)

\* Mutant of Flush: the buffer is sent last command first.
RECURSIVE FlushReversed(_, _, _)
FlushReversed(C, w, commands) ==
    IF commands = <<>> THEN C
    ELSE ws_command(FlushReversed(C, w, Tail(commands)), w, Head(commands))

\* the loop "for command in self._pending_commands: self._ws.command(command)"
RECURSIVE Flush(_, _, _)
Flush(C, w, commands) ==
    IF commands = <<>> THEN C
    ELSE Flush(ws_command(C, w, Head(commands)), w, Tail(commands))

\* Mutant of _connect_client: the assertion is missing, so a second channel
\* replaces the first and the buffer is sent again.
_connect_client_unchecked(G, p, w) ==
    [G EXCEPT !.P[p]._ws = w,
              !.C = Flush(G.C, w, G.P[p]._pending_commands)]

\* Proxy._connect_client
_connect_client(G, p, w) ==
    IF G.P[p]._ws # 0 THEN Raise(G, ErrAssert)
    ELSE [G EXCEPT !.P[p]._ws = w,
                   !.C = Flush(G.C, w, G.P[p]._pending_commands)]

\* Proxy._set_widget
_set_widget(G, p) ==
    IF G.P[p]._widget THEN Raise(G, ErrAssert)
    ELSE [G EXCEPT !.P[p]._widget = TRUE]

\* Proxy.close
close(G, p) ==
    LET G1 == IF G.P[p]._runtime
              THEN [G EXCEPT !.P[p].closes = @ + 1] ELSE G
    IN  IF G1.P[p]._widget THEN [G1 EXCEPT !.P[p]._widget = FALSE] ELSE G1

\* Mutant of eval: the check for a websocket is missing.
eval_unchecked(G, p, code) == _send_command(G, p, Command("EVAL ", code))

\* Proxy.eval
eval(G, p, code) ==
    IF G.P[p]._ws = 0 THEN Raise(G, ErrNotConnected)
    ELSE _send_command(G, p, Command("EVAL ", code))

\* Proxy._exec
_exec(G, p, code) == _send_command(G, p, Command("EXEC ", code))

\* Proxy.register_mirrored; RegisterBases is its loop over cls.mro()[1:]
\* from position i on.
RECURSIVE register_mirrored(_, _, _)
RECURSIVE RegisterBases(_, _, _, _)
RegisterBases(G, p, bases, i) ==
    IF G.err # NoErr \/ i > Len(bases) THEN G
    ELSE IF ~issubclass_Mirrored(bases[i]) THEN G
    ELSE IF bases[i] \notin G.P[p]._known_mirrored_classes
         THEN RegisterBases(register_mirrored(G, p, bases[i]), p, bases, i + 1)
         ELSE RegisterBases(G, p, bases, i + 1)

\* Mutant of register_mirrored: the "already registered" check is missing.
register_mirrored_again(G, p, cls) ==
    IF ~issubclass_Mirrored(cls) THEN Raise(G, ErrValue)
    ELSE LET G1 == RegisterBases(G, p, Tail(mro(cls)), 1) IN
         IF G1.err # NoErr THEN G1
         ELSE LET G2 == [G1 EXCEPT !.P[p]._known_mirrored_classes =
                                        @ \cup {cls}]
                  G3 == _send_command(G2, p, Command("DEFINE-JS ", get_js(cls)))
              IN  IF G3.err # NoErr THEN G3
                  ELSE IF strip(get_css(cls)) # <<>>
                       THEN _send_command(G3, p,
                                Command("DEFINE-CSS ", get_css(cls)))
                       ELSE G3

register_mirrored(G, p, cls) ==
    IF ~issubclass_Mirrored(cls) THEN Raise(G, ErrValue)
    ELSE IF cls \in G.P[p]._known_mirrored_classes THEN G
    ELSE LET G1 == RegisterBases(G, p, Tail(mro(cls)), 1) IN
         IF G1.err # NoErr THEN G1
         ELSE LET G2 == [G1 EXCEPT !.P[p]._known_mirrored_classes =
                                        @ \cup {cls}]
                  G3 == _send_command(G2, p, Command("DEFINE-JS ", get_js(cls)))
              IN  IF G3.err # NoErr THEN G3
                  ELSE IF strip(get_css(cls)) # <<>>
                       THEN _send_command(G3, p,
                                Command("DEFINE-CSS ", get_css(cls)))
                       ELSE G3

\* Proxy._launch_runtime, for the proxy p under construction
_launch_runtime(G, p, runtime, busy) ==
    IF runtime = "<export>"
    THEN [G EXCEPT !.C = Append(@, NewChan("export", 0)),
                   !.P[p]._ws = Len(G.C) + 1]
    ELSE IF runtime = "notebook" THEN G
    ELSE CHOOSE r \in
            {LET G1 == [G EXCEPT !.T = srv[1]] IN
             IF srv[2] # NoErr THEN Raise(G1, srv[2])
             ELSE IF srv[1].serving_at = 0 THEN Raise(G1, ErrAttr)
             ELSE [G1 EXCEPT !.P[p]._runtime = TRUE]
             : srv \in {init_server(G.T, 0, busy)}} : TRUE

\* clientCode.get_defined_mirrored_classes(): no class is defined up front,
\* so every Mirrored class, the root included, is defined dynamically.
get_defined_mirrored_classes == {}

\* Proxy.__init__ at address addr, with the classes clientCode has defined.
\* A constructor that raises leaves no Proxy object behind, only its side
\* effects on the server.
NewProxyObj(app_name, addr, classes) ==
    [alive |-> TRUE, _app_name |-> app_name, addr |-> addr,
     _runtime |-> FALSE, closes |-> 0, _ws |-> 0, _widget |-> FALSE,
     _known_mirrored_classes |-> classes, _pending_commands |-> <<>>]

Proxy(G, app_name, runtime, addr, busy) ==
    LET p  == Len(G.P) + 1
        G1 == [G EXCEPT !.P = Append(@, NewProxyObj(app_name, addr, get_defined_mirrored_classes)),
                        !.I = Append(@, <<>>)]
        G2 == IF runtime # "" THEN _launch_runtime(G1, p, runtime, busy)
              ELSE G1
    IN  IF G2.err # NoErr THEN [G2 EXCEPT !.P = G.P, !.I = G.I]
        ELSE Return(G2, p)


(* ----------------------------- AppManager ------------------------------ *)
\* Mutant of Remove: nothing is removed.
RemoveNothing(list, x) == list

\* list.remove(x): drops the first element equal to x
RECURSIVE Remove(_, _)
Remove(list, x) ==
    IF list = <<>> THEN <<>>
    ELSE IF Head(list) = x THEN Tail(list)
    ELSE <<Head(list)>> \o Remove(Tail(list), x)

Contains(list, x) == \E k \in 1..Len(list) : list[k] = x

\* Mutant of pop_last: list.pop(0), the oldest element.
pop_first(list) == <<Head(list), Tail(list)>>

\* list.pop(-1) on a non-empty list: <<the element popped, the list left>>
pop_last(list) == <<list[Len(list)], SubSeq(list, 1, Len(list) - 1)>>

\* AppManager.__init__
ManagerInit == [n \in {DEFAULT} |-> [cls |-> "None", pending |-> <<>>,
                                     connected |-> <<>>]]

\* AppManager.register_app_class
register_app_class(G, cls) ==
    LET name == ClassName(cls)
        keep == name \in DOMAIN G.R /\ cls # G.R[name].cls
        pending   == IF keep THEN G.R[name].pending ELSE <<>>
        connected == IF keep THEN G.R[name].connected ELSE <<>>
    IN  [G EXCEPT !.R = [n \in DOMAIN G.R \cup {name} |->
                            IF n = name
                            THEN [cls |-> cls, pending |-> pending,
                                  connected |-> connected]
                            ELSE G.R[n]]]

\* Mutant of get_default_proxy: pending proxies are preferred to connected
\* ones.
get_default_proxy_pending_first(G, addr, busy) ==
    LET e == G.R[DEFAULT]
        proxies == e.connected \o e.pending
    IN  IF proxies # <<>> THEN Return(G, proxies[Len(proxies)])
        ELSE LET runtime == IF G.nb THEN "notebook" ELSE "browser"
                 G1 == Proxy(G, DEFAULT, runtime, addr, busy)
             IN  IF G1.err # NoErr THEN G1
                 ELSE [G1 EXCEPT !.R[DEFAULT].pending = Append(@, G1.res)]

\* AppManager.get_default_proxy
get_default_proxy(G, addr, busy) ==
    LET e == G.R[DEFAULT]
        proxies == e.pending \o e.connected
    IN  IF proxies # <<>> THEN Return(G, proxies[Len(proxies)])
        ELSE LET runtime == IF G.nb THEN "notebook" ELSE "browser"
                 G1 == Proxy(G, DEFAULT, runtime, addr, busy)
             IN  IF G1.err # NoErr THEN G1
                 ELSE [G1 EXCEPT !.R[DEFAULT].pending = Append(@, G1.res)]

\* Mutant of add_pending_proxy_instance: the status of the proxy is not
\* looked at.
add_pending_proxy_instance_any_status(G, p) ==
    LET name == G.P[p]._app_name IN
    IF name \notin DOMAIN G.R THEN Raise(G, ErrAssert)
    ELSE IF Contains(G.R[name].pending, p) THEN Raise(G, ErrAssert)
    ELSE [G EXCEPT !.R[name].pending = Append(@, p)]

\* AppManager.add_pending_proxy_instance
add_pending_proxy_instance(G, p) ==
    LET name == G.P[p]._app_name IN
    IF name \notin DOMAIN G.R THEN Raise(G, ErrAssert)
    ELSE IF status(G.P[p], G.C) = "PENDING"
         THEN IF Contains(G.R[name].pending, p) THEN Raise(G, ErrAssert)
              ELSE [G EXCEPT !.R[name].pending = Append(@, p)]
         ELSE Raise(G, ErrAlready)

\* Mutant of FindById: the id is not compared, the first pending proxy is
\* taken.
FindFirst(G, pending, app_id, k) == IF pending = <<>> THEN 0 ELSE 1

\* the search "for proxy in pending: if proxy.id == app_id" of connect_client:
\* the position of the first match, 0 if the loop runs to its else branch
RECURSIVE FindById(_, _, _, _)
FindById(G, pending, app_id, k) ==
    IF k > Len(pending) THEN 0
    ELSE IF id(G.P[pending[k]]) = app_id THEN k
    ELSE FindById(G, pending, app_id, k + 1)

\* the end of connect_client, from "assert proxy.status == PENDING" on
Attach(G, p, w, name) ==
    IF status(G.P[p], G.C) # "PENDING" THEN Raise(G, ErrAssert)
    ELSE LET G1 == _connect_client(G, p, w) IN
         IF G1.err # NoErr THEN G1
         ELSE Return([G1 EXCEPT !.R[name].connected = Append(@, p)], p)

\* AppManager.connect_client(ws, name, app_id); app_id "" is a falsy app_id
\* (None or the empty string).  addr: where a fresh Proxy is allocated.
connect_client(G, w, name, app_id, addr) ==
    IF name \notin DOMAIN G.R THEN Raise(G, ErrKey)
    ELSE LET e == G.R[name] IN
      IF name = DEFAULT
      THEN IF e.pending # <<>>
           THEN Attach([G EXCEPT !.R[name].pending = pop_last(@)[2]],
                       pop_last(e.pending)[1], w, name)
           ELSE LET G1 == Proxy(G, name, "", addr, 0)
                IN  Attach(G1, G1.res, w, name)
      ELSE IF app_id = <<>>
      THEN LET G1 == Proxy(G, ClassName(e.cls), "", addr, 0)
               G2 == _set_widget(G1, G1.res)
           IN  Attach(G2, G1.res, w, name)
      ELSE LET k == FindById(G, e.pending, app_id, 1) IN
           IF k = 0 THEN Raise(G, ErrDangling)
           ELSE Attach([G EXCEPT !.R[name].pending =
                            Remove(@, e.pending[k])],
                       e.pending[k], w, name)

\* AppManager.disconnect_client
disconnect_client(G, p) ==
    LET name == G.P[p]._app_name IN
    IF name \notin DOMAIN G.R THEN Raise(G, ErrKey)
    ELSE close([G EXCEPT !.R[name].connected = Remove(@, p)], p)

\* launch() of this_is_an_app, for a class named "App"
launch(G, cls, runtime, addr, busy) ==
    LET G1 == Proxy(G, ClassName(cls), runtime, addr, busy) IN
    IF G1.err # NoErr THEN G1
    ELSE LET G2 == _set_widget(G1, G1.res) IN
         IF G2.err # NoErr THEN G2
         ELSE LET G3 == add_pending_proxy_instance(G2, G1.res) IN
              IF G3.err # NoErr THEN G3 ELSE Return(G3, G1.res)


(* ------------------------------ actions -------------------------------- *)
G0 == [R |-> _proxies, P |-> proxy, C |-> chan, T |-> _tornado_app,
       nb |-> is_notebook, I |-> issued, res |-> 0, err |-> NoErr]

\* A call: the operation, the proxy it is made on (0: none), its other
\* arguments.
Call(op, p, arg) == [op |-> op, p |-> p, arg |-> arg]

\* The state after a call that ended in G, within the bounds of the model.
Commit(G, call) ==
    /\ Len(G.P) <= limit.proxies
    /\ Len(G.C) <= limit.chans
    /\ \A q \in 1..Len(G.P) : /\ Len(G.I[q]) <= limit.cmds
                              /\ G.P[q].closes <= limit.closes
    /\ _proxies' = G.R
    /\ proxy' = G.P
    /\ chan' = G.C
    /\ _tornado_app' = G.T
    /\ issued' = G.I
    /\ ret' = [op |-> call.op, p |-> call.p, arg |-> call.arg,
               res |-> G.res, err |-> G.err]
    /\ UNCHANGED <<is_notebook, limit>>

Alive == {p \in 1..Len(proxy) : proxy[p].alive}
\* Memory: as many addresses as there can be live proxies.  The allocator
\* gives a new object the lowest address no live object occupies, so the
\* address of a freed proxy is the next one handed out (0: none is free, and
\* the bound on proxies then disables the call that allocates).
Addrs == {AddrBase + k : k \in 1..limit.proxies}
FreeAddrs == Addrs \ {proxy[p].addr : p \in Alive}
Alloc == IF FreeAddrs = {} THEN 0
         ELSE CHOOSE a \in FreeAddrs : \A b \in FreeAddrs : a <= b
\* the app_id a connection can carry: none, or any id a proxy can have
AppIds == {<<>>} \cup {Hex(a) : a \in Addrs}
InLists(p) ==
    \E n \in DOMAIN _proxies :
        Contains(_proxies[n].pending, p) \/ Contains(_proxies[n].connected, p)

\* this_is_an_app(cls): manager.register_app_class(cls)
RegisterAppClass(cls) ==
    Commit(register_app_class(G0, cls), Call("register_app_class", 0, <<cls>>))

GetDefaultProxy(busy) ==
    Commit(get_default_proxy(G0, Alloc, busy),
           Call("get_default_proxy", 0, <<>>))

\* Proxy(app_name, runtime) constructed by a caller
NewProxy(name, runtime, busy) ==
    Commit(Proxy(G0, name, runtime, Alloc, busy),
           Call("Proxy", 0, <<name, runtime>>))

AddPendingProxyInstance(p) ==
    Commit(add_pending_proxy_instance(G0, p),
           Call("add_pending_proxy_instance", p, <<>>))

\* cls.launch(runtime), available once cls was registered
Launch(cls, runtime, busy) ==
    /\ ClassName(cls) \in DOMAIN _proxies
    /\ Commit(launch(G0, cls, runtime, Alloc, busy),
              Call("launch", 0, <<cls, runtime>>))

\* cls.launch(runtime) where the allocator places the new Proxy object at
\* addr, any address no live object occupies
LaunchAt(cls, runtime, busy, addr) ==
    /\ ClassName(cls) \in DOMAIN _proxies
    /\ addr \in FreeAddrs
    /\ Commit(launch(G0, cls, runtime, addr, busy),
              Call("launch", 0, <<cls, runtime>>))

\* a websocket connects: it is open, and calls manager.connect_client; the
\* websocket is the channel object created by this step, chan'[Len(chan')]
ConnectClient(name, app_id) ==
    LET w == Len(chan) + 1
        G == [G0 EXCEPT !.C = Append(@, NewChan("ws", 0))]
    IN  Commit(connect_client(G, w, name, app_id, Alloc),
               Call("connect_client", 0, <<name, app_id>>))

DisconnectClient(p) ==
    Commit(disconnect_client(G0, p), Call("disconnect_client", p, <<>>))

Close(p) ==
    Commit(close(G0, p), Call("close", p, <<>>))

Exec(p, code) ==
    Commit(_exec(G0, p, <<code>>), Call("_exec", p, <<code>>))

Eval(p, code) ==
    Commit(eval(G0, p, <<code>>), Call("eval", p, <<code>>))

RegisterMirrored(p, cls) ==
    Commit(register_mirrored(G0, p, cls), Call("register_mirrored", p, <<cls>>))

\* proxy._connect_client(ws) called on a proxy directly, with a channel object
\* that is open (code = 0) or already closed; the channel is chan'[Len(chan')]
ConnectDirect(p, code) ==
    LET w == Len(chan) + 1
        G == [G0 EXCEPT !.C = Append(@, NewChan("ws", code))]
    IN  Commit(_connect_client(G, p, w), Call("_connect_client", p, <<>>))

\* the remote end closes the websocket of proxy p: close_code becomes
\* non-None
WsClose(p) ==
    /\ proxy[p]._ws # 0
    /\ chan[proxy[p]._ws].kind = "ws"
    /\ chan[proxy[p]._ws].close_code = 0
    /\ Commit([G0 EXCEPT !.C[proxy[p]._ws].close_code = 1000],
              Call("ws_close", p, <<>>))

\* the websocket of proxy p closes and, as its docstring says, calls
\* manager.disconnect_client(proxy)
OnClose(p) ==
    /\ proxy[p]._ws # 0
    /\ chan[proxy[p]._ws].kind = "ws"
    /\ chan[proxy[p]._ws].close_code = 0
    /\ Commit(disconnect_client(
                  [G0 EXCEPT !.C[proxy[p]._ws].close_code = 1000], p),
              Call("on_close", p, <<>>))

\* the last reference to a proxy outside the manager is dropped: the object
\* is freed and its address can be given to a new object
Discard(p) ==
    /\ ~InLists(p)
    /\ Commit([G0 EXCEPT !.P[p] = [NewProxyObj("", proxy[p].addr, {})
                                       EXCEPT !.alive = FALSE],
                         !.I[p] = <<>>],
              Call("del", p, <<>>))

\* JupyterChecker._repr_html_
ReprHtml ==
    /\ ~is_notebook
    /\ is_notebook' = TRUE
    /\ ret' = [op |-> "_repr_html_", p |-> 0, arg |-> <<>>, res |-> 0,
               err |-> IF _tornado_app.serving_at = 0 THEN ErrAttr ELSE NoErr]
    /\ UNCHANGED <<_proxies, proxy, chan, _tornado_app, limit, issued>>

\* the state after "manager = AppManager()" at import, apart from the server
Start ==
    /\ _proxies = ManagerInit
    /\ proxy = <<>>
    /\ chan = <<>>
    /\ issued = <<>>
    /\ ret = [op |-> "import", p |-> 0, arg |-> <<>>, res |-> 0, err |-> NoErr]

\* init_server(port=port) called directly, or through run() when port is
\* None, in an environment where the ports of `busy` are in use
StartServer(port, busy) ==
    LET srv == init_server(_tornado_app, port, busy)
        G   == [G0 EXCEPT !.T = srv[1]]
    IN  Commit(IF srv[2] # NoErr THEN Raise(G, srv[2]) ELSE G,
               Call("init_server", 0, <<port, busy>>))

(* ---------------------- the manager specification ---------------------- *)
\* Every operation of the AppManager in a notebook session: run() has
\* started the server on the first candidate port and its result was
\* displayed (is_notebook), so proxies are created without an external
\* runtime.  Proxies are launched, connected, disconnected and closed;
\* commands are left to the Proxy specification.
Init ==
    /\ Start
    /\ _tornado_app = init_server(NoServer, 0, {})[1]
    /\ is_notebook = TRUE
    /\ limit = [proxies |-> MaxProxies, chans |-> MaxChans,
                cmds |-> 0, closes |-> 0]

Next ==
    \/ \E cls \in AppClasses : RegisterAppClass(cls)
    \/ GetDefaultProxy({})
    \/ NewProxy(DEFAULT, "notebook", {})
    \/ \E p \in Alive : AddPendingProxyInstance(p)
    \/ \E cls \in AppClasses : Launch(cls, "notebook", {})
    \/ \E name \in Names, app_id \in AppIds : ConnectClient(name, app_id)
    \/ \E p \in Alive : DisconnectClient(p)
    \/ \E p \in Alive : OnClose(p)
    \/ \E p \in Alive : Close(p)

Spec == Init /\ [][Next]_vars

(* ----------------------- the Proxy specification ----------------------- *)
\* One Proxy object of the default application: constructed by a caller
\* (pending, or in export mode) or by an incoming connection; then handed
\* commands and class definitions, given a channel by the manager or
\* directly, while its websocket may close at any time.
InitProxy ==
    /\ Start
    /\ _tornado_app = NoServer
    /\ is_notebook = FALSE
    /\ limit = [proxies |-> 1, chans |-> ProxyChans,
                cmds |-> ProxyCmds, closes |-> 0]

NextProxy ==
    \/ \E runtime \in {"<export>", "notebook"} : NewProxy(DEFAULT, runtime, {})
    \/ \E p \in Alive : AddPendingProxyInstance(p)
    \/ ConnectClient(DEFAULT, <<>>)
    \/ \E p \in Alive, code \in {0, 1000} : ConnectDirect(p, code)
    \/ \E p \in Alive, code \in Codes : Exec(p, code)
    \/ \E p \in Alive, code \in Codes : Eval(p, code)
    \/ \E p \in Alive, cls \in AllClasses : RegisterMirrored(p, cls)
    \/ \E p \in Alive : WsClose(p)

SpecProxy == InitProxy /\ [][NextProxy]_vars

(* ----------------------- the server specification ---------------------- *)
\* A plain Python session (no notebook yet, no server yet): the server is
\* started by init_server or by the first proxy that launches an external
\* runtime, in an environment where some ports are taken; proxies with a
\* runtime process are connected, disconnected and closed.
Cand(i) == port_hash(Seed(i))
AllCands == {Cand(i) : i \in 0..(NumCandidates - 1)}
\* the port a caller passes to init_server explicitly
ExplicitPort == 8080
\* environments: nothing taken, the first candidates taken, a later one
\* taken, every candidate (but the last) taken
BusySets ==
    {{}, {Cand(0)}, {Cand(0), Cand(1)}, {Cand(1)}, AllCands,
     AllCands \ {Cand(NumCandidates - 1)}}

InitSrv ==
    /\ Start
    /\ _tornado_app = NoServer
    /\ is_notebook = FALSE
    /\ limit = [proxies |-> ServerProxies, chans |-> ServerProxies,
                cmds |-> 0, closes |-> MaxCloses]

NextSrv ==
    \/ \E busy \in BusySets : StartServer(0, busy)
    \/ \E busy \in {{}, {ExplicitPort}} : StartServer(ExplicitPort, busy)
    \/ ReprHtml
    \/ RegisterAppClass("cls1")
    \/ \E busy \in {{}, AllCands} : GetDefaultProxy(busy)
    \/ \E busy \in {{}, AllCands} : Launch("cls1", "browser", busy)
    \/ ConnectClient(DEFAULT, <<>>)
    \/ \E p \in Alive : DisconnectClient(p)
    \/ \E p \in Alive : Close(p)

SpecServer == InitSrv /\ [][NextSrv]_vars

(* ------------------------ the hash specification ----------------------- *)
\* port_hash applied to every string of up to MaxSeedLen characters of
\* SeedChars; nothing else happens.
SeedChars == {"x", "0", "2", "3"}
Seeds == UNION {[1..k -> SeedChars] : k \in 0..MaxSeedLen}

PortHash(name) ==
    /\ ret' = [op |-> "port_hash", p |-> 0, arg |-> name,
               res |-> port_hash(name), err |-> NoErr]
    /\ UNCHANGED <<_proxies, proxy, chan, _tornado_app, is_notebook, limit,
                   issued>>

InitHash ==
    /\ Start
    /\ _tornado_app = NoServer
    /\ is_notebook = FALSE
    /\ limit = [proxies |-> 0, chans |-> 0, cmds |-> 0, closes |-> 0]

NextHash == \E name \in Seeds : PortHash(name)

SpecHash == InitHash /\ [][NextHash]_vars

(* ------------------------- the id specification ----------------------- *)
\* Instances of one application in a notebook session are launched,
\* connected by id, disconnected, and dropped by the program: a dropped
\* object is freed, and the allocator may place a later Proxy at any free
\* address, the one just freed included.
InitIds ==
    /\ Start
    /\ _tornado_app = init_server(NoServer, 0, {})[1]
    /\ is_notebook = TRUE
    /\ limit = [proxies |-> IdProxies, chans |-> IdChans,
                cmds |-> 0, closes |-> 0]

NextIds ==
    \/ RegisterAppClass("cls1")
    \/ \E addr \in Addrs : LaunchAt("cls1", "notebook", {}, addr)
    \/ \E app_id \in AppIds \ {<<>>} : ConnectClient("App", app_id)
    \/ \E p \in Alive : DisconnectClient(p)
    \/ \E p \in Alive : Discard(p)

SpecIds == InitIds /\ [][NextIds]_vars

(* ------------------------------- claims -------------------------------- *)
\* what a proxy's commands went to: its channel once it has one, else its
\* buffer
Delivered(p) ==
    IF proxy[p]._ws = 0 THEN proxy[p]._pending_commands
    ELSE chan[proxy[p]._ws].log
Attached(w) == \E p \in Alive : proxy[p]._ws = w
Count(seq, x) == Cardinality({k \in 1..Len(seq) : seq[k] = x})

\* C1: the commands a proxy accepted (issued, in call order) are exactly what
\* its channel was handed, in the same order and once each: the buffered
\* ones first, then the ones sent after the channel was attached.  While the
\* proxy has no channel they are exactly its buffer, and a channel that is
\* attached to no proxy was handed nothing.
C1_Fifo ==
    /\ \A p \in Alive : Delivered(p) = issued[p]
    /\ \A w \in 1..Len(chan) : ~Attached(w) => chan[w].log = <<>>

\* C1 witness: a channel that got two different commands, the first of them
\* buffered before it was attached, the second sent after.
C1_Witness ==
    \E p \in Alive :
        /\ proxy[p]._ws # 0
        /\ chan[proxy[p]._ws].kind = "ws"
        /\ Len(proxy[p]._pending_commands) = 1
        /\ Len(chan[proxy[p]._ws].log) = 2
        /\ chan[proxy[p]._ws].log[1] # chan[proxy[p]._ws].log[2]

\* C5: a proxy that has a channel keeps that channel for ever; attaching
\* another one, directly or through connect_client, fails with an
\* AssertionError, leaves the proxy as it was and hands nothing to the new
\* channel.
C5_AttachOnce ==
    [][\A p \in Alive :
          proxy[p]._ws # 0 =>
            /\ proxy'[p]._ws = proxy[p]._ws
            /\ (ret'.op = "_connect_client" /\ ret'.p = p) =>
                 /\ ret'.err = ErrAssert
                 /\ proxy'[p] = proxy[p]
                 /\ chan'[Len(chan')].log = <<>>
            /\ (/\ ret'.op = "connect_client"
                /\ _proxies[DEFAULT].pending # <<>>
                /\ _proxies[DEFAULT].pending[Len(_proxies[DEFAULT].pending)] = p) =>
                 /\ ret'.err = ErrAssert
                 /\ proxy'[p] = proxy[p]
                 /\ chan'[Len(chan')].log = <<>>
      ]_vars

\* C5 witness: an attach was refused on a proxy launched in export mode that
\* holds a command.
C5_Witness ==
    /\ ret.op = "_connect_client"
    /\ ret.err = ErrAssert
    /\ chan[proxy[ret.p]._ws].kind = "export"
    /\ chan[proxy[ret.p]._ws].log # <<>>
    /\ Len(chan) = 2

\* C10: on every proxy each class's DEFINE-JS command is emitted at most
\* once, and register_mirrored with a class the proxy already knows raises
\* nothing and changes neither the proxy nor any channel.
C10_RegisterIdempotent ==
    /\ [](\A p \in Alive : \A cls \in MClasses :
            Count(Delivered(p), Command("DEFINE-JS ", get_js(cls))) <= 1)
    /\ [][\A p \in Alive :
            (/\ ret'.op = "register_mirrored"
             /\ ret'.p = p
             /\ ret'.arg[1] \in proxy[p]._known_mirrored_classes) =>
               /\ ret'.err = NoErr
               /\ proxy' = proxy
               /\ chan' = chan
               /\ issued' = issued
         ]_vars

\* C10 witness: register_mirrored(Mirrored) was called after Mirrored had
\* been defined as a base of B; its DEFINE-JS is there once.
C10_Witness ==
    /\ ret.op = "register_mirrored"
    /\ ret.arg = <<"Mirrored">>
    /\ ret.err = NoErr
    /\ Delivered(ret.p) = <<Command("DEFINE-JS ", get_js("Mirrored")),
                            Command("DEFINE-JS ", get_js("B"))>>

\* the pending and the connected list of a registered name
Pending(name) == _proxies[name].pending
Connected(name) == _proxies[name].connected
Without(list, x) == SelectSeq(list, LAMBDA y : y # x)
ConnectedAnywhere(R, p) == \E n \in DOMAIN R : Contains(R[n].connected, p)

\* C2: connect_client(ws, "App", i), where i is the id of a proxy P in the
\* pending list of "App", returns P, takes P (and nothing else) out of the
\* pending list, appends P to the connected list and leaves P CONNECTED on
\* the connecting websocket.
C2_ConnectById ==
    [][\A P \in Alive :
          (/\ ret'.op = "connect_client"
           /\ "App" \in DOMAIN _proxies
           /\ ret'.arg = <<"App", id(proxy[P])>>
           /\ Contains(Pending("App"), P)) =>
             /\ ret'.err = NoErr
             /\ ret'.res = P
             /\ _proxies'["App"].pending = Without(Pending("App"), P)
             /\ _proxies'["App"].connected = Append(Connected("App"), P)
             /\ _proxies'[DEFAULT] = _proxies[DEFAULT]
             /\ proxy'[P]._ws = Len(chan')
             /\ status(proxy'[P], chan') = "CONNECTED"
      ]_vars

\* C2 witness: of two launched instances the later one was asked for by id
\* and connected; the earlier one is still pending.
C2_Witness ==
    /\ ret.op = "connect_client"
    /\ ret.res = 2
    /\ ret.arg = <<"App", id(proxy[2])>>
    /\ Pending("App") = <<1>>
    /\ Connected("App") = <<2>>
    /\ proxy[2]._widget

\* C3: connect_client for "App" with an app_id that no proxy pending for
\* "App" has (the id of a connected proxy included) raises the "could not
\* find it" RuntimeError, changes no list and no proxy, and the websocket is
\* attached to no proxy and handed nothing.
C3_DanglingId ==
    [][(/\ ret'.op = "connect_client"
        /\ "App" \in DOMAIN _proxies
        /\ ret'.arg[1] = "App"
        /\ ret'.arg[2] # <<>>
        /\ \A k \in 1..Len(Pending("App")) :
              id(proxy[Pending("App")[k]]) # ret'.arg[2]) =>
          /\ ret'.err = ErrDangling
          /\ ret'.res = 0
          /\ _proxies' = _proxies
          /\ proxy' = proxy
          /\ chan'[Len(chan')].log = <<>>
          /\ \A q \in 1..Len(proxy') : proxy'[q]._ws # Len(chan')
      ]_vars

\* C3 witness: a second connection asked for the id of a proxy that is
\* already connected, while another proxy was pending, and was refused.
C3_Witness ==
    /\ ret.op = "connect_client"
    /\ ret.err = ErrDangling
    /\ \E P \in Alive : /\ Contains(Connected("App"), P)
                        /\ ret.arg = <<"App", id(proxy[P])>>
    /\ Pending("App") # <<>>

\* C4 (as claimed): when close() or disconnect_client() has just returned on
\* a proxy that never had a channel, a connection carrying that proxy's id
\* is refused with the "could not find it" RuntimeError and the proxy stays
\* without a channel and out of the connected list.
C4_ClosedPendingStaysOut ==
    [][\A P \in Alive :
          (/\ ret.op \in {"close", "disconnect_client"}
           /\ ret.p = P
           /\ ret.err = NoErr
           /\ proxy[P]._ws = 0
           /\ ret'.op = "connect_client"
           /\ ret'.arg = <<proxy[P]._app_name, id(proxy[P])>>) =>
             /\ ret'.err = ErrDangling
             /\ proxy'[P]._ws = 0
             /\ ~ConnectedAnywhere(_proxies', P)
      ]_vars

\* C6 (as claimed): register_app_class for a name that is registered, with
\* any class, leaves that name's pending and connected lists as they were
\* and raises nothing.
C6_RegisterKeepsLists ==
    [][(/\ ret'.op = "register_app_class"
        /\ "App" \in DOMAIN _proxies) =>
          /\ ret'.err = NoErr
          /\ _proxies'["App"].pending = Pending("App")
          /\ _proxies'["App"].connected = Connected("App")
      ]_vars

\* C7: connect_client for "__default__" takes the proxy added last to the
\* default pending list when there is one, and otherwise constructs a proxy
\* without widget; the proxy is returned, CONNECTED on the connecting
\* websocket, and appended to the default connected list.
C7_DefaultConnect ==
    [][(/\ ret'.op = "connect_client"
        /\ ret'.arg[1] = DEFAULT) =>
          /\ ret'.err = NoErr
          /\ ret'.res \in 1..Len(proxy')
          /\ IF Pending(DEFAULT) # <<>>
             THEN /\ ret'.res = Pending(DEFAULT)[Len(Pending(DEFAULT))]
                  /\ _proxies'[DEFAULT].pending =
                        SubSeq(Pending(DEFAULT), 1, Len(Pending(DEFAULT)) - 1)
                  /\ Len(proxy') = Len(proxy)
             ELSE /\ ret'.res = Len(proxy) + 1
                  /\ Len(proxy') = Len(proxy) + 1
                  /\ ~proxy'[ret'.res]._widget
                  /\ proxy'[ret'.res]._app_name = DEFAULT
                  /\ _proxies'[DEFAULT].pending = <<>>
          /\ _proxies'[DEFAULT].connected = Append(Connected(DEFAULT), ret'.res)
          /\ proxy'[ret'.res]._ws = Len(chan')
          /\ status(proxy'[ret'.res], chan') = "CONNECTED"
      ]_vars

\* C7 witness: two proxies were pending for the default application and the
\* connection got the one added last.
C7_Witness ==
    /\ ret.op = "connect_client"
    /\ ret.arg[1] = DEFAULT
    /\ ret.res = 2
    /\ Pending(DEFAULT) = <<1>>
    /\ Connected(DEFAULT) = <<2>>

\* C8 (as claimed): whenever the default pending list is non-empty,
\* get_default_proxy returns the proxy added to it last.
C8_PendingPreferred ==
    [][(/\ ret'.op = "get_default_proxy"
        /\ Pending(DEFAULT) # <<>>) =>
          ret'.res = Pending(DEFAULT)[Len(Pending(DEFAULT))]
      ]_vars

\* C8 (amended): get_default_proxy returns the last element of
\* pending + connected: the proxy connected last whenever the connected list
\* is non-empty, the pending proxy added last only when nothing is
\* connected, and only when both lists are empty it constructs a proxy,
\* appends it to the pending list and returns it.  In the first two cases
\* nothing changes.
C8_LastOfPendingThenConnected ==
    [][ret'.op = "get_default_proxy" =>
          /\ ret'.err = NoErr
          /\ IF Connected(DEFAULT) # <<>>
             THEN /\ ret'.res = Connected(DEFAULT)[Len(Connected(DEFAULT))]
                  /\ _proxies' = _proxies /\ proxy' = proxy
             ELSE IF Pending(DEFAULT) # <<>>
             THEN /\ ret'.res = Pending(DEFAULT)[Len(Pending(DEFAULT))]
                  /\ _proxies' = _proxies /\ proxy' = proxy
             ELSE /\ ret'.res = Len(proxy) + 1
                  /\ Len(proxy') = Len(proxy) + 1
                  /\ proxy'[ret'.res]._ws = 0
                  /\ ~proxy'[ret'.res]._widget
                  /\ _proxies'[DEFAULT].pending = <<ret'.res>>
                  /\ _proxies'[DEFAULT].connected = <<>>
      ]_vars

\* C8 witness: get_default_proxy returned the connected proxy although
\* another proxy was pending.
C8_Witness ==
    /\ ret.op = "get_default_proxy"
    /\ Pending(DEFAULT) # <<>>
    /\ Connected(DEFAULT) # <<>>
    /\ ret.res = Connected(DEFAULT)[Len(Connected(DEFAULT))]

\* C9: disconnect_client(proxy) raises nothing, takes the proxy out of the
\* connected list of its application and changes no other list; when the
\* proxy is not in that list (a second disconnect) no list changes at all.
\* Afterwards the proxy is in no connected list.
C9_Disconnect ==
    [][\A P \in Alive :
          (ret'.op = "disconnect_client" /\ ret'.p = P) =>
            LET name == proxy[P]._app_name IN
            /\ ret'.err = NoErr
            /\ DOMAIN _proxies' = DOMAIN _proxies
            /\ _proxies'[name].connected = Without(Connected(name), P)
            /\ _proxies'[name].pending = Pending(name)
            /\ \A n \in DOMAIN _proxies \ {name} : _proxies'[n] = _proxies[n]
            /\ ~Contains(Connected(name), P) => _proxies' = _proxies
            /\ ~ConnectedAnywhere(_proxies', P)
      ]_vars

\* C9 witness: disconnect_client returned on a proxy that has a websocket,
\* is in no list any more, while another proxy stays connected.
C9_Witness ==
    /\ ret.op = "disconnect_client"
    /\ ret.err = NoErr
    /\ proxy[ret.p]._ws # 0
    /\ ~InLists(ret.p)
    /\ \E n \in DOMAIN _proxies : Connected(n) # <<>>

\* the Mirrored classes among the proper ancestors of cls
MirroredAncestors(cls) ==
    {mro(cls)[i] : i \in 2..Len(mro(cls))} \cap MClasses
DefineJs(cls) == Command("DEFINE-JS ", get_js(cls))

\* C11 (as claimed): in the commands a proxy was handed, the DEFINE-JS of a
\* class comes only after the DEFINE-JS of every Mirrored ancestor of that
\* class (no class is defined at proxy creation).
C11_AncestorsFirst ==
    \A p \in Alive : \A k \in 1..Len(issued[p]) : \A cls \in MClasses :
        issued[p][k] = DefineJs(cls) =>
            \A a \in MirroredAncestors(cls) :
                \E j \in 1..(k - 1) : issued[p][j] = DefineJs(a)

\* C12: _send_command (called through _exec) acts on the status computed at
\* the call: CONNECTED hands the command to the websocket and leaves the
\* buffer alone; PENDING appends it to the buffer and no channel is handed
\* anything; CLOSED raises "app is closed" and changes neither channel nor
\* proxy.  No step makes the buffer of a proxy that has a websocket grow.
C12_SendDispatch ==
    /\ [][\A p \in Alive : (ret'.op = "_exec" /\ ret'.p = p) =>
            LET st  == status(proxy[p], chan)
                cmd == Command("EXEC ", ret'.arg)
            IN  /\ st = "CONNECTED" =>
                     /\ ret'.err = NoErr
                     /\ chan' = [chan EXCEPT ![proxy[p]._ws].log =
                                                 Append(@, cmd)]
                     /\ proxy' = proxy
                /\ st = "PENDING" =>
                     /\ ret'.err = NoErr
                     /\ chan' = chan
                     /\ proxy' = [proxy EXCEPT ![p]._pending_commands =
                                                   Append(@, cmd)]
                /\ st = "CLOSED" =>
                     /\ ret'.err = ErrClosed
                     /\ chan' = chan
                     /\ proxy' = proxy
         ]_vars
    /\ [][\A p \in Alive : proxy[p]._ws # 0 =>
            proxy'[p]._pending_commands = proxy[p]._pending_commands]_vars

\* C12 witness: a command was buffered, flushed on connection, the websocket
\* closed, and the next command was refused.
C12_Witness ==
    /\ ret.op = "_exec"
    /\ ret.err = ErrClosed
    /\ proxy[ret.p]._pending_commands # <<>>
    /\ chan[proxy[ret.p]._ws].log = proxy[ret.p]._pending_commands

\* C13: init_server() without a port, when no server exists yet, calls
\* listen() with the ports of the seeds flexx+0, flexx+1, ... in that order
\* and with nothing after the first port that is not in use, which becomes
\* the serving port; when all 100 are in use it raises "Could not bind to
\* free address" after exactly those 100 calls.
C13_CandidateOrder ==
    [][(/\ ret'.op = "init_server"
        /\ ret'.arg[1] = 0
        /\ ~_tornado_app.created) =>
          LET busy == ret'.arg[2]
              free == {i \in 0..(NumCandidates - 1) : Cand(i) \notin busy}
          IN  IF free # {}
              THEN LET k == CHOOSE i \in free : \A j \in free : i <= j IN
                   /\ ret'.err = NoErr
                   /\ _tornado_app'.tried = [j \in 1..(k + 1) |-> Cand(j - 1)]
                   /\ _tornado_app'.listening = Cand(k)
                   /\ _tornado_app'.serving_at = Cand(k)
              ELSE /\ ret'.err = ErrNoPort
                   /\ _tornado_app'.tried =
                         [j \in 1..NumCandidates |-> Cand(j - 1)]
                   /\ _tornado_app'.listening = 0
      ]_vars

\* C13 witness: the first two candidate ports were in use and the server
\* serves at the third candidate after three listen() calls.
C13_Witness ==
    /\ ret.op = "init_server"
    /\ ret.err = NoErr
    /\ ret.arg = <<0, {Cand(0), Cand(1)}>>
    /\ _tornado_app.tried = <<Cand(0), Cand(1), Cand(2)>>
    /\ _tornado_app.serving_at = Cand(2)

\* the largest port number, named in the docstring of port_hash
MaxPort == 65535

\* C14 (as claimed): every port port_hash returns is at least 49152 and
\* below 65535.
C14_BelowMaxPort ==
    ret.op = "port_hash" => (PortBase <= ret.res /\ ret.res < MaxPort)

\* C14 (amended): every port port_hash returns is at least 49152 and at most
\* 65535, and both ends are returned: 49152 for the empty seed and 65535 for
\* the seed "x023".  The result depends on the seed alone.
C14_PortRange ==
    ret.op = "port_hash" =>
        /\ PortBase <= ret.res /\ ret.res <= MaxPort
        /\ ret.res = port_hash(ret.arg)
        /\ ret.arg = <<>> => ret.res = PortBase
        /\ ret.arg = <<"x", "0", "2", "3">> => ret.res = MaxPort

\* C14 witness: port_hash was called with the seed "x023" and returned 65535.
C14_Witness ==
    /\ ret.op = "port_hash"
    /\ ret.arg = <<"x", "0", "2", "3">>
    /\ ret.res = MaxPort

\* C15 (as claimed): in every step the status of a proxy stays as it is, or
\* goes from PENDING to CONNECTED, or from CONNECTED to CLOSED; in
\* particular never from PENDING to CLOSED.
C15_StatusOrder ==
    [][\A p \in Alive :
          LET old == status(proxy[p], chan)
              new == status(proxy'[p], chan')
          IN  \/ new = old
              \/ old = "PENDING" /\ new = "CONNECTED"
              \/ old = "CONNECTED" /\ new = "CLOSED"
      ]_vars

\* C16 (as claimed): once close() has asked the runtime of a proxy to
\* terminate, a further close() or disconnect_client() of that proxy changes
\* nothing of the proxy: no further runtime.close() call, and the widget
\* stays absent.
C16_CloseIdempotent ==
    [][\A p \in Alive :
          (/\ ret'.op \in {"close", "disconnect_client"}
           /\ ret'.p = p
           /\ proxy[p].closes >= 1) =>
             /\ proxy'[p] = proxy[p]
             /\ ~proxy'[p]._widget
      ]_vars

\* C17 (as claimed): every class in _known_mirrored_classes of a proxy was
\* defined at its creation or had its DEFINE-JS command sent or buffered; so
\* a register_mirrored that ends with "app is closed" leaves its class out.
C17_KnownWereSent ==
    \A p \in Alive : \A cls \in proxy[p]._known_mirrored_classes :
        \/ cls \in get_defined_mirrored_classes
        \/ \E k \in 1..Len(issued[p]) : issued[p][k] = DefineJs(cls)

\* C18: eval(code) on a proxy without websocket (PENDING) raises "App not
\* connected" and changes neither the buffer nor any channel; on a CONNECTED
\* proxy it hands exactly the one command 'EVAL ' + code to the websocket.
C18_EvalNeedsChannel ==
    [][\A p \in Alive : (ret'.op = "eval" /\ ret'.p = p) =>
          LET st  == status(proxy[p], chan)
              cmd == Command("EVAL ", ret'.arg)
          IN  /\ st = "PENDING" =>
                   /\ ret'.err = ErrNotConnected
                   /\ proxy' = proxy
                   /\ chan' = chan
                   /\ issued' = issued
              /\ st = "CONNECTED" =>
                   /\ ret'.err = NoErr
                   /\ proxy' = proxy
                   /\ chan' = [chan EXCEPT ![proxy[p]._ws].log = Append(@, cmd)]
      ]_vars

\* C18 witness: eval was refused on a pending proxy that has a command in
\* its buffer.
C18_Witness ==
    /\ ret.op = "eval"
    /\ ret.err = ErrNotConnected
    /\ proxy[ret.p]._ws = 0
    /\ proxy[ret.p]._pending_commands # <<>>

\* C19 (as claimed): no two of the Proxy objects created so far, live or
\* freed, have the same id.
C19_IdsUnique ==
    \A p, q \in 1..Len(proxy) : p # q => id(proxy[p]) # id(proxy[q])

NoDuplicates(list) ==
    \A i, j \in 1..Len(list) : i # j => list[i] # list[j]

\* C20: in every entry of the registry no proxy is twice in the pending or
\* twice in the connected list, no proxy is in both lists, every proxy in
\* the pending list has status PENDING and every proxy in the connected
\* list has a websocket.
C20_RegistryLists ==
    \A n \in DOMAIN _proxies :
        /\ NoDuplicates(Pending(n))
        /\ NoDuplicates(Connected(n))
        /\ \A i \in 1..Len(Pending(n)) :
              /\ ~Contains(Connected(n), Pending(n)[i])
              /\ status(proxy[Pending(n)[i]], chan) = "PENDING"
        /\ \A i \in 1..Len(Connected(n)) : proxy[Connected(n)[i]]._ws # 0

\* C20 witness: with one instance connected and another pending for the
\* same application, adding the connected one as pending was refused.
C20_Witness ==
    /\ ret.op = "add_pending_proxy_instance"
    /\ ret.err = ErrAlready
    /\ \E n \in DOMAIN _proxies :
          /\ Contains(Connected(n), ret.p)
          /\ Pending(n) # <<>>

\* C21 (as claimed): every init_server() call that returns without an
\* exception, a call after a failed one included, leaves the server
\* listening on a port with that port recorded in serving_at, and a server
\* that is listening already keeps its binding: no second bind.
C21_ReturnMeansListening ==
    [][(/\ ret'.op = "init_server"
        /\ ret'.err = NoErr) =>
          /\ _tornado_app'.listening # 0
          /\ _tornado_app'.serving_at = _tornado_app'.listening
          /\ _tornado_app.listening # 0 => _tornado_app' = _tornado_app
      ]_vars

====
